---- MODULE Spec2Model ----
(***************************************************************************)
(* The StorageClass patroller of the virtual-cluster syncer                *)
(* (pkg/syncer/resources/storageclass/checker.go).                         *)
(*                                                                         *)
(* One pass (PatrollerDo) queries the tenant cluster names, resets the     *)
(* package counter numMissMatchedStorageClasses, starts one goroutine per  *)
(* tenant cluster (checkStorageClassOfTenantCluster), waits for all of     *)
(* them, sweeps the super master's storage classes against every tenant    *)
(* and sets the MissMatchedStorageClasses gauge.                           *)
(*                                                                         *)
(* Every collaborator call (informer listers, cluster clients, the         *)
(* multi-cluster controller) either answers from the stores below or       *)
(* fails; at most MaxFaults calls fail in one pass.                        *)
(***************************************************************************)
EXTENDS Bags, FiniteSets, Integers, Sequences, TLC

Clusters == {"T1", "T2"}
Names == {"A", "B"}
\* spec payloads of tenant objects; the super master's objects all carry
\* payload 1, so payload 2 is "differs from the super master"
Specs == {1, 2}
SuperSpecs == {1}

\* bound: collaborator calls that may fail in one pass
MaxFaults == 2

VARIABLES
    pStore,        \* super master informer cache: set of [name, public, spec]
    vStore,        \* tenant clusters: cluster -> set of [name, spec]
    pc,            \* position of PatrollerDo
    clusterNames,  \* PatrollerDo's local clusterNames (a sequence)
    launched,      \* number of iterations of the launch loop done
    wg,            \* sync.WaitGroup counter
    scPc,          \* per cluster: position of its goroutine
    scList,        \* per cluster: scList.Items of its goroutine
    scIdx,         \* per cluster: loop index i of its goroutine
    listed,        \* per cluster: the objects its List call returned in this pass
    numMissMatchedStorageClasses,
    pList,         \* PatrollerDo's local pStorageClassList
    si, sj,        \* sweep loop indices (into pList and clusterNames)
    missMatchGauge,\* metrics.CheckerMissMatchStats{MissMatchedStorageClasses}
    remedyStats,   \* metrics.CheckerRemedyStats, per label, counted in this pass
    upwardQueue,   \* bag of the keys passed to UpwardController.AddToQueue in this pass
    deleteCalls,   \* bag of <<cluster, name>> passed to StorageClasses().Delete in this pass
    verdict,       \* per cluster and name: how the goroutine classified the listed object
    listErr,       \* per cluster: its List call failed in this pass
    probes,        \* per cluster and name: what the sweep's Get answered in this pass
    gaugeSets,     \* number of Set calls on the gauge in this pass
    passEnd,       \* how the last PatrollerDo call returned
    faults         \* collaborator calls that failed in this pass

vars == <<pStore, vStore, pc, clusterNames, launched, wg, scPc, scList, scIdx, listed,
          numMissMatchedStorageClasses, pList, si, sj, missMatchGauge,
          remedyStats, upwardQueue, deleteCalls, verdict, listErr, probes,
          gaugeSets, passEnd, faults>>

(***************************************************************************)
(* Values and pure helpers                                                 *)
(***************************************************************************)

\* v1.StorageClass objects of the super master and of a tenant
SuperObjs == [name : Names, public : BOOLEAN, spec : SuperSpecs]
TenantObjs == [name : Names, spec : Specs]

\* the nil *v1.StorageClass
NilSC == [name |-> "", spec |-> 0]

\* a store holds at most one object per name
UniqueNames(S) == \A x, y \in S : x.name = y.name => x = y

\* the orders in which a lister may return the objects of S
Orders(S) ==
    {s \in [1..Cardinality(S) -> S] : \A i, j \in 1..Cardinality(S) : s[i] = s[j] => i = j}

\* publicStorageClass(pStorageClass)
publicStorageClass(p) == p.public

\* conversion.Equality(nil, nil).CheckStorageClassEquality(pObj, vObj):
\* nil when the compared fields agree, else the tenant object with the
\* super master's fields
CheckStorageClassEquality(p, v) ==
    IF p.spec = v.spec THEN NilSC ELSE [v EXCEPT !.spec = p.spec]

\* clusterName + "/" + pStorageClass.Name
QueueKey(clusterName, name) == clusterName \o "/" \o name

\* UpwardController.AddToQueue(key)
AddToQueue(q, key) == q (+) SetToBag({key})

\* mutant: a store where the add should be
StoreUint64(v, delta) == delta

\* atomic.AddUint64(&numMissMatchedStorageClasses, delta)
AtomicAddUint64(v, delta) == v + delta

\* metrics counter Inc() on one label
Inc(stats, label) == [stats EXCEPT ![label] = @ + 1]

DeletedLabel == "DeletedOrphanTenantStorageClasses"
RequeuedLabel == "RequeuedSuperMasterStorageClasses"
NoStats == [l \in {DeletedLabel, RequeuedLabel} |-> 0]

\* storageclassLister.Get(name) on the cache: the objects of that name
SuperGet(name) == {p \in pStore : p.name = name}

\* MultiClusterController.Get(clusterName, "", name, ...) on the tenant cache
TenantHas(clusterName, name) == \E v \in vStore[clusterName] : v.name = name

\* a collaborator call may still fail in this pass
MayFail == faults < MaxFaults

\* mutant: the wait returns while one goroutine is still running
WaitReturnsEarly == wg <= 1

\* wg.Wait() returns
WaitReturns == wg = 0

\* the names of Init's stores, and C, which only the T1 scenario uses
ScenarioNames == Names \cup {"C"}
NoVerdicts == [c \in Clusters |-> [n \in ScenarioNames |-> "none"]]
NoListErr == [c \in Clusters |-> FALSE]

(***************************************************************************)
(* Initial state: any super master store and tenant stores, no pass run    *)
(***************************************************************************)
NoPassYet ==
    /\ pc = "idle"
    /\ clusterNames = <<>>
    /\ launched = 0
    /\ wg = 0
    /\ scPc = [c \in Clusters |-> "off"]
    /\ scList = [c \in Clusters |-> <<>>]
    /\ scIdx = [c \in Clusters |-> 0]
    /\ listed = [c \in Clusters |-> {}]
    /\ numMissMatchedStorageClasses = 0
    /\ pList = <<>>
    /\ si = 0
    /\ sj = 0
    /\ missMatchGauge = 0
    /\ remedyStats = NoStats
    /\ upwardQueue = EmptyBag
    /\ deleteCalls = EmptyBag
    /\ verdict = NoVerdicts
    /\ listErr = NoListErr
    /\ probes = NoVerdicts
    /\ gaugeSets = 0
    /\ passEnd = "none"
    /\ faults = 0

Init ==
    /\ pStore \in {S \in SUBSET SuperObjs : UniqueNames(S)}
    /\ vStore \in [Clusters -> {S \in SUBSET TenantObjs : UniqueNames(S)}]
    /\ NoPassYet

\* what every PatrollerDo call starts from: the observations of the previous
\* pass are cleared, its goroutines and locals are gone
NewPass ==
    /\ launched' = 0
    /\ scPc' = [c \in Clusters |-> "off"]
    /\ scList' = [c \in Clusters |-> <<>>]
    /\ scIdx' = [c \in Clusters |-> 0]
    /\ listed' = [c \in Clusters |-> {}]
    /\ pList' = <<>>
    /\ si' = 0
    /\ sj' = 0
    /\ remedyStats' = NoStats
    /\ upwardQueue' = EmptyBag
    /\ deleteCalls' = EmptyBag
    /\ verdict' = NoVerdicts
    /\ listErr' = NoListErr
    /\ probes' = NoVerdicts
    /\ gaugeSets' = 0
    /\ faults' = 0

(***************************************************************************)
(* PatrollerDo, up to the barrier                                          *)
(***************************************************************************)

\* GetClusterNames() answers any subset of the clusters, in any order (the
\* names are the keys of a map)
ClusterNameLists == UNION {Orders(S) : S \in SUBSET Clusters}

\* mutant: the counter is reset before the emptiness test
PatrolNoClustersResetFirst ==
    /\ pc = "idle"
    /\ clusterNames' = <<>>
    /\ NewPass
    /\ numMissMatchedStorageClasses' = 0
    /\ passEnd' = "empty"
    /\ UNCHANGED <<pStore, vStore, pc, wg, missMatchGauge>>

\* lines 49-53: no tenant control planes, the call returns at once
PatrolNoClusters ==
    /\ pc = "idle"
    /\ clusterNames' = <<>>
    /\ Len(clusterNames') = 0
    /\ NewPass
    /\ passEnd' = "empty"
    /\ UNCHANGED <<pStore, vStore, pc, wg, numMissMatchedStorageClasses, missMatchGauge>>

\* mutant: the reset of the counter is missing
PatrolBeginNoReset ==
    /\ pc = "idle"
    /\ \E names \in ClusterNameLists :
        /\ Len(names) # 0
        /\ clusterNames' = names
    /\ NewPass
    /\ wg' = 0
    /\ pc' = "launch"
    /\ passEnd' = "running"
    /\ UNCHANGED <<pStore, vStore, missMatchGauge, numMissMatchedStorageClasses>>

\* lines 49-56: some tenant control planes; the counter is reset
PatrolBegin ==
    /\ pc = "idle"
    /\ \E names \in ClusterNameLists :
        /\ Len(names) # 0
        /\ clusterNames' = names
    /\ NewPass
    /\ wg' = 0
    /\ numMissMatchedStorageClasses' = 0
    /\ pc' = "launch"
    /\ passEnd' = "running"
    /\ UNCHANGED <<pStore, vStore, missMatchGauge>>

\* lines 58-64: one iteration of the launch loop: wg.Add(1); go func(...)
Launch ==
    /\ pc = "launch"
    /\ launched < Len(clusterNames)
    /\ LET c == clusterNames[launched + 1] IN
        /\ wg' = wg + 1
        /\ scPc' = [scPc EXCEPT ![c] = "list"]
    /\ launched' = launched + 1
    /\ pc' = IF launched + 1 = Len(clusterNames) THEN "wait" ELSE "launch"
    /\ UNCHANGED <<pStore, vStore, clusterNames, scList, listed, scIdx,
                   numMissMatchedStorageClasses, pList, si, sj, missMatchGauge,
                   remedyStats, upwardQueue, deleteCalls, verdict, listErr, probes,
                   gaugeSets, passEnd, faults>>

\* line 65: wg.Wait() returns
Barrier ==
    /\ pc = "wait"
    /\ WaitReturns
    /\ pc' = "superlist"
    /\ UNCHANGED <<pStore, vStore, clusterNames, launched, wg, scPc, scList, listed, scIdx,
                   numMissMatchedStorageClasses, pList, si, sj, missMatchGauge,
                   remedyStats, upwardQueue, deleteCalls, verdict, listErr, probes,
                   gaugeSets, passEnd, faults>>

(***************************************************************************)
(* checkStorageClassOfTenantCluster(c), one goroutine per cluster          *)
(***************************************************************************)

\* mutant: the nil test inverted
HasDiffInverted(updatedStorageClass) == updatedStorageClass = NilSC

\* line 126: updatedStorageClass != nil
HasDiff(updatedStorageClass) == updatedStorageClass # NilSC

\* mutant: the public test is missing
RequeueAlways(q, c, p) == AddToQueue(q, QueueKey(c, p.name))

\* lines 129-131: only a public storage class is put on the upward queue
RequeueIfPublic(q, c, p) ==
    IF publicStorageClass(p) THEN AddToQueue(q, QueueKey(c, p.name)) ELSE q

\* what the goroutine leaves alone in every step
ScanFrame ==
    UNCHANGED <<pStore, pc, clusterNames, launched, pList, si, sj, missMatchGauge,
                probes, gaugeSets, passEnd>>

\* mutant: a failed List cancels the sibling goroutines (fail-fast group)
ScanListFailsCancels(c) ==
    /\ scPc[c] = "list"
    /\ MayFail
    /\ faults' = faults + 1
    /\ listErr' = [listErr EXCEPT ![c] = TRUE]
    /\ scPc' = [d \in Clusters |-> IF scPc[d] = "off" THEN "off" ELSE "done"]
    /\ scList' = [d \in Clusters |-> <<>>]
    /\ scIdx' = [d \in Clusters |-> 0]
    /\ wg' = 0
    /\ ScanFrame
    /\ UNCHANGED <<vStore, listed, numMissMatchedStorageClasses, remedyStats,
                   upwardQueue, deleteCalls, verdict>>

\* mutant: the error path returns without wg.Done()
ScanListFailsNoDone(c) ==
    /\ scPc[c] = "list"
    /\ MayFail
    /\ faults' = faults + 1
    /\ listErr' = [listErr EXCEPT ![c] = TRUE]
    /\ scPc' = [scPc EXCEPT ![c] = "done"]
    /\ ScanFrame
    /\ UNCHANGED <<vStore, wg, scList, listed, scIdx, numMissMatchedStorageClasses, remedyStats,
                   upwardQueue, deleteCalls, verdict>>

\* mutant: the return after the failed List is missing
ScanListFailsNoReturn(c) ==
    /\ scPc[c] = "list"
    /\ MayFail
    /\ faults' = faults + 1
    /\ listErr' = [listErr EXCEPT ![c] = TRUE]
    /\ \E items \in Orders(vStore[c]) : scList' = [scList EXCEPT ![c] = items]
    /\ listed' = [listed EXCEPT ![c] = vStore[c]]
    /\ scIdx' = [scIdx EXCEPT ![c] = 1]
    /\ scPc' = [scPc EXCEPT ![c] = "loop"]
    /\ ScanFrame
    /\ UNCHANGED <<vStore, wg, numMissMatchedStorageClasses, remedyStats,
                   upwardQueue, deleteCalls, verdict>>

\* lines 94-97: MultiClusterController.List fails; return, deferred wg.Done()
ScanListFails(c) ==
    /\ scPc[c] = "list"
    /\ MayFail
    /\ faults' = faults + 1
    /\ listErr' = [listErr EXCEPT ![c] = TRUE]
    /\ scPc' = [scPc EXCEPT ![c] = "done"]
    /\ wg' = wg - 1
    /\ ScanFrame
    /\ UNCHANGED <<vStore, scList, listed, scIdx, numMissMatchedStorageClasses, remedyStats,
                   upwardQueue, deleteCalls, verdict>>

\* lines 93-98: MultiClusterController.List fills scList
ScanList(c) ==
    /\ scPc[c] = "list"
    /\ \E items \in Orders(vStore[c]) : scList' = [scList EXCEPT ![c] = items]
    /\ listed' = [listed EXCEPT ![c] = vStore[c]]
    /\ scIdx' = [scIdx EXCEPT ![c] = 1]
    /\ scPc' = [scPc EXCEPT ![c] = "loop"]
    /\ ScanFrame
    /\ UNCHANGED <<vStore, wg, numMissMatchedStorageClasses, remedyStats,
                   upwardQueue, deleteCalls, verdict, listErr, faults>>

\* the goroutine is at the head of the loop body for scList.Items[i]
AtItem(c) == scPc[c] = "loop" /\ scIdx[c] <= Len(scList[c])
Item(c) == scList[c][scIdx[c]]

\* continue: on to the next item
NextItem(c, kind) ==
    /\ scIdx' = [scIdx EXCEPT ![c] = @ + 1]
    /\ verdict' = [verdict EXCEPT ![c][Item(c).name] = kind]
    /\ scPc' = [scPc EXCEPT ![c] = "loop"]
    /\ UNCHANGED <<scList, listed, wg, listErr>>

\* mutant: return where the loop should continue
ScanOrphanNoClientReturns(c) ==
    /\ AtItem(c)
    /\ SuperGet(Item(c).name) = {}
    /\ MayFail
    /\ faults' = faults + 1
    /\ verdict' = [verdict EXCEPT ![c][Item(c).name] = "noclient"]
    /\ scPc' = [scPc EXCEPT ![c] = "done"]
    /\ scList' = [scList EXCEPT ![c] = <<>>]
    /\ scIdx' = [scIdx EXCEPT ![c] = 0]
    /\ wg' = wg - 1
    /\ ScanFrame
    /\ UNCHANGED <<vStore, listed, listErr, numMissMatchedStorageClasses,
                   remedyStats, upwardQueue, deleteCalls>>

\* lines 101-108: not found in the super master, GetClusterClient fails
ScanOrphanNoClient(c) ==
    /\ AtItem(c)
    /\ SuperGet(Item(c).name) = {}
    /\ MayFail
    /\ faults' = faults + 1
    /\ NextItem(c, "noclient")
    /\ ScanFrame
    /\ UNCHANGED <<vStore, numMissMatchedStorageClasses, remedyStats, upwardQueue,
                   deleteCalls>>

\* mutant: a failed Delete is tried again
ScanOrphanDeleteRetried(c) ==
    /\ scPc[c] = "loop" /\ scIdx[c] <= Len(scList[c])
    /\ SuperGet(scList[c][scIdx[c]].name) = {}
    /\ MayFail
    /\ faults' = faults + 1
    /\ deleteCalls' = deleteCalls (+) SetToBag({<<c, scList[c][scIdx[c]].name>>})
                                   (+) SetToBag({<<c, scList[c][scIdx[c]].name>>})
    /\ scPc' = [scPc EXCEPT ![c] = "delfailed"]
    /\ UNCHANGED <<pStore, pc, clusterNames, launched, pList, si, sj, missMatchGauge,
                   probes, gaugeSets, passEnd>>
    /\ UNCHANGED <<vStore, wg, scList, listed, scIdx, verdict, listErr,
                   numMissMatchedStorageClasses, remedyStats, upwardQueue>>

\* lines 101-112: not found in the super master, a client is obtained, the
\* Delete call returns an error; the goroutine is at line 113
ScanOrphanDeleteFails(c) ==
    /\ AtItem(c)
    /\ SuperGet(Item(c).name) = {}
    /\ MayFail
    /\ faults' = faults + 1
    /\ deleteCalls' = deleteCalls (+) SetToBag({<<c, Item(c).name>>})
    /\ scPc' = [scPc EXCEPT ![c] = "delfailed"]
    /\ ScanFrame
    /\ UNCHANGED <<vStore, wg, scList, listed, scIdx, verdict, listErr,
                   numMissMatchedStorageClasses, remedyStats, upwardQueue>>

\* lines 113, 117: the failed Delete is logged; continue
ScanOrphanDeleteLogged(c) ==
    /\ scPc[c] = "delfailed"
    /\ NextItem(c, "delfailed")
    /\ ScanFrame
    /\ UNCHANGED <<vStore, deleteCalls, numMissMatchedStorageClasses, remedyStats,
                   upwardQueue, faults>>

\* mutant: the Delete call is left out, the orphan is only counted
ScanOrphanDeleteLeftOut(c) ==
    /\ AtItem(c)
    /\ SuperGet(Item(c).name) = {}
    /\ scPc' = [scPc EXCEPT ![c] = "deleted"]
    /\ ScanFrame
    /\ UNCHANGED <<vStore, deleteCalls, wg, scList, listed, scIdx, verdict, listErr,
                   numMissMatchedStorageClasses, remedyStats, upwardQueue, faults>>

\* lines 101-112: not found in the super master, a client is obtained, the
\* Delete call removes the tenant object; the goroutine is at line 115
ScanOrphanDeleted(c) ==
    /\ AtItem(c)
    /\ SuperGet(Item(c).name) = {}
    /\ deleteCalls' = deleteCalls (+) SetToBag({<<c, Item(c).name>>})
    /\ vStore' = [vStore EXCEPT ![c] = {v \in @ : v.name # Item(c).name}]
    /\ scPc' = [scPc EXCEPT ![c] = "deleted"]
    /\ ScanFrame
    /\ UNCHANGED <<wg, scList, listed, scIdx, verdict, listErr,
                   numMissMatchedStorageClasses, remedyStats, upwardQueue, faults>>

\* lines 115, 117: the successful Delete is counted; continue
ScanOrphanDeleteCounted(c) ==
    /\ scPc[c] = "deleted"
    /\ remedyStats' = Inc(remedyStats, DeletedLabel)
    /\ NextItem(c, "deleted")
    /\ ScanFrame
    /\ UNCHANGED <<vStore, deleteCalls, numMissMatchedStorageClasses, upwardQueue, faults>>

\* mutant: any error of the lookup is taken for not found
ScanLookupFailsDeletes(c) ==
    /\ AtItem(c)
    /\ MayFail
    /\ faults' = faults + 1
    /\ deleteCalls' = deleteCalls (+) SetToBag({<<c, Item(c).name>>})
    /\ vStore' = [vStore EXCEPT ![c] = {v \in @ : v.name # Item(c).name}]
    /\ scPc' = [scPc EXCEPT ![c] = "deleted"]
    /\ ScanFrame
    /\ UNCHANGED <<wg, scList, listed, scIdx, verdict, listErr,
                   numMissMatchedStorageClasses, remedyStats, upwardQueue>>

\* mutant: return where the loop should continue
ScanLookupFailsReturns(c) ==
    /\ AtItem(c)
    /\ MayFail
    /\ faults' = faults + 1
    /\ verdict' = [verdict EXCEPT ![c][Item(c).name] = "lookuperr"]
    /\ scPc' = [scPc EXCEPT ![c] = "done"]
    /\ scList' = [scList EXCEPT ![c] = <<>>]
    /\ scIdx' = [scIdx EXCEPT ![c] = 0]
    /\ wg' = wg - 1
    /\ ScanFrame
    /\ UNCHANGED <<vStore, listed, listErr, numMissMatchedStorageClasses,
                   remedyStats, upwardQueue, deleteCalls>>

\* lines 101, 120-123: the lister fails with another error than not found
ScanLookupFails(c) ==
    /\ AtItem(c)
    /\ MayFail
    /\ faults' = faults + 1
    /\ NextItem(c, "lookuperr")
    /\ ScanFrame
    /\ UNCHANGED <<vStore, numMissMatchedStorageClasses, remedyStats, upwardQueue,
                   deleteCalls>>

\* lines 101, 125-132: the super master has the object; compare
ScanCompare(c) ==
    /\ AtItem(c)
    /\ \E p \in SuperGet(Item(c).name) :
        LET updatedStorageClass == CheckStorageClassEquality(p, Item(c)) IN
        IF HasDiff(updatedStorageClass)
        THEN /\ numMissMatchedStorageClasses' =
                    AtomicAddUint64(numMissMatchedStorageClasses, 1)
             /\ upwardQueue' = RequeueIfPublic(upwardQueue, c, p)
             /\ NextItem(c, "diff")
        ELSE /\ UNCHANGED <<numMissMatchedStorageClasses, upwardQueue>>
             /\ NextItem(c, "equal")
    /\ ScanFrame
    /\ UNCHANGED <<vStore, remedyStats, deleteCalls, faults>>

\* lines 100, 134: the loop is over; return, deferred wg.Done(); the
\* goroutine's locals are gone
ScanReturn(c) ==
    /\ scPc[c] = "loop"
    /\ scIdx[c] > Len(scList[c])
    /\ scPc' = [scPc EXCEPT ![c] = "done"]
    /\ scList' = [scList EXCEPT ![c] = <<>>]
    /\ scIdx' = [scIdx EXCEPT ![c] = 0]
    /\ wg' = wg - 1
    /\ ScanFrame
    /\ UNCHANGED <<vStore, listed, numMissMatchedStorageClasses, remedyStats,
                   upwardQueue, deleteCalls, verdict, listErr, faults>>

(***************************************************************************)
(* PatrollerDo, after the barrier                                          *)
(***************************************************************************)

SweepFrame ==
    UNCHANGED <<pStore, vStore, clusterNames, launched, wg, scPc, scList, listed, scIdx,
                numMissMatchedStorageClasses, deleteCalls, verdict, listErr>>

\* lines 67-71: storageclassLister.List fails; the call returns
SuperListFails ==
    /\ pc = "superlist"
    /\ MayFail
    /\ faults' = faults + 1
    /\ pc' = "idle"
    /\ passEnd' = "listerr"
    /\ SweepFrame
    /\ UNCHANGED <<pList, si, sj, missMatchGauge, remedyStats, upwardQueue, probes,
                   gaugeSets>>

\* line 67: storageclassLister.List(labels.Everything())
SuperList ==
    /\ pc = "superlist"
    /\ pList' \in Orders(pStore)
    /\ si' = 1
    /\ sj' = 1
    /\ pc' = "sweep"
    /\ SweepFrame
    /\ UNCHANGED <<missMatchGauge, remedyStats, upwardQueue, probes, gaugeSets, passEnd,
                   faults>>

\* mutant: the public test of the sweep is missing
AtProbeAny == pc = "sweep" /\ si <= Len(pList)

\* lines 73-77: the sweep is at a public storage class and a cluster
AtProbe == pc = "sweep" /\ si <= Len(pList) /\ publicStorageClass(pList[si])

\* mutant: the inner loop breaks after its first cluster
ProbeNextBreak(answer) ==
    /\ probes' = [probes EXCEPT ![clusterNames[sj]][pList[si].name] = answer]
    /\ si' = si + 1
    /\ sj' = 1
    /\ UNCHANGED <<pc, pList, missMatchGauge, gaugeSets, passEnd>>

\* the inner loop moves to the next cluster, the outer one to the next object
ProbeNext(answer) ==
    /\ probes' = [probes EXCEPT ![clusterNames[sj]][pList[si].name] = answer]
    /\ IF sj = Len(clusterNames)
       THEN si' = si + 1 /\ sj' = 1
       ELSE si' = si /\ sj' = sj + 1
    /\ UNCHANGED <<pc, pList, missMatchGauge, gaugeSets, passEnd>>

\* lines 74-76: not a public storage class
SweepSkip ==
    /\ pc = "sweep"
    /\ si <= Len(pList)
    /\ ~publicStorageClass(pList[si])
    /\ si' = si + 1
    /\ SweepFrame
    /\ UNCHANGED <<pc, pList, sj, missMatchGauge, remedyStats, upwardQueue, probes,
                   gaugeSets, passEnd, faults>>

\* line 79: the tenant has the object
SweepFound ==
    /\ AtProbe
    /\ TenantHas(clusterNames[sj], pList[si].name)
    /\ ProbeNext("found")
    /\ SweepFrame
    /\ UNCHANGED <<remedyStats, upwardQueue, faults>>

\* mutant: the requeue is not counted
SweepNotFoundUncounted ==
    /\ AtProbe
    /\ ~TenantHas(clusterNames[sj], pList[si].name)
    /\ upwardQueue' = AddToQueue(upwardQueue, QueueKey(clusterNames[sj], pList[si].name))
    /\ ProbeNext("notfound")
    /\ SweepFrame
    /\ UNCHANGED <<remedyStats, faults>>

\* lines 79-84: not found in the tenant: count and requeue
SweepNotFound ==
    /\ AtProbe
    /\ ~TenantHas(clusterNames[sj], pList[si].name)
    /\ remedyStats' = Inc(remedyStats, RequeuedLabel)
    /\ upwardQueue' = AddToQueue(upwardQueue, QueueKey(clusterNames[sj], pList[si].name))
    /\ ProbeNext("notfound")
    /\ SweepFrame
    /\ UNCHANGED faults

\* mutant: any error of Get is taken for not found
SweepProbeFailsRequeues ==
    /\ AtProbe
    /\ MayFail
    /\ faults' = faults + 1
    /\ remedyStats' = Inc(remedyStats, RequeuedLabel)
    /\ upwardQueue' = AddToQueue(upwardQueue, QueueKey(clusterNames[sj], pList[si].name))
    /\ ProbeNext("failed")
    /\ SweepFrame

\* lines 79, 84: Get fails with another error
SweepProbeFails ==
    /\ AtProbe
    /\ MayFail
    /\ faults' = faults + 1
    /\ ProbeNext("failed")
    /\ SweepFrame
    /\ UNCHANGED <<remedyStats, upwardQueue>>

\* line 87: the sweep is over
SweepEnd ==
    /\ pc = "sweep"
    /\ si > Len(pList)
    /\ pc' = "publish"
    /\ SweepFrame
    /\ UNCHANGED <<pList, si, sj, missMatchGauge, remedyStats, upwardQueue, probes,
                   gaugeSets, passEnd, faults>>

\* line 89: the gauge is set to the counter; the call returns
Publish ==
    /\ pc = "publish"
    /\ missMatchGauge' = numMissMatchedStorageClasses
    /\ gaugeSets' = gaugeSets + 1
    /\ pc' = "idle"
    /\ passEnd' = "published"
    /\ SweepFrame
    /\ UNCHANGED <<pList, si, sj, remedyStats, upwardQueue, probes, faults>>

Next ==
    \/ PatrolNoClusters
    \/ PatrolBegin
    \/ Launch
    \/ Barrier
    \/ \E c \in Clusters : ScanListFails(c)
    \/ \E c \in Clusters : ScanList(c)
    \/ \E c \in Clusters : ScanOrphanNoClient(c)
    \/ \E c \in Clusters : ScanOrphanDeleteFails(c)
    \/ \E c \in Clusters : ScanOrphanDeleteLogged(c)
    \/ \E c \in Clusters : ScanOrphanDeleted(c)
    \/ \E c \in Clusters : ScanOrphanDeleteCounted(c)
    \/ \E c \in Clusters : ScanLookupFails(c)
    \/ \E c \in Clusters : ScanCompare(c)
    \/ \E c \in Clusters : ScanReturn(c)
    \/ SuperListFails
    \/ SuperList
    \/ SweepSkip
    \/ SweepFound
    \/ SweepNotFound
    \/ SweepProbeFails
    \/ SweepEnd
    \/ Publish

Spec == Init /\ [][Next]_vars

(***************************************************************************)
(* The scenario of T1: the super master holds A (public) and B (private);  *)
(* T1 holds A (matching), B (differing) and C (no counterpart); T2 holds   *)
(* nothing.                                                                *)
(***************************************************************************)
ScenarioT1 ==
    {[name |-> "A", spec |-> 1], [name |-> "B", spec |-> 2], [name |-> "C", spec |-> 1]}

InitScenario ==
    /\ pStore = {[name |-> "A", public |-> TRUE, spec |-> 1],
                 [name |-> "B", public |-> FALSE, spec |-> 1]}
    /\ vStore = [c \in Clusters |-> IF c = "T1" THEN ScenarioT1 ELSE {}]
    /\ NoPassYet

ScenarioSpec == InitScenario /\ [][Next]_vars

(***************************************************************************)
(* The periodic patroller (StartPatrol, Patroller.Start) under fairness    *)
(***************************************************************************)

\* a pass over a cluster set that holds c starts
PatrolBeginWith(c) == PatrolBegin /\ \E i \in DOMAIN clusterNames' : clusterNames'[i] = c

\* the super master holds A, public or private; T1 holds a differing A and
\* an orphan B; T2 holds nothing or an orphan B
InitLive ==
    /\ Init
    /\ \E p \in pStore : pStore = {p} /\ p.name = "A"
    /\ vStore["T1"] = {[name |-> "A", spec |-> 2], [name |-> "B", spec |-> 1]}
    /\ vStore["T2"] \in SUBSET {[name |-> "B", spec |-> 1]}

\* Every step that can be taken is eventually taken (the timer fires, the
\* goroutines and PatrollerDo run). Every tenant is in the cluster set again
\* and again, and its List, client acquisition and Delete succeed again and
\* again.
LiveSpec ==
    /\ InitLive
    /\ [][Next]_vars
    /\ WF_vars(Next)
    /\ \A c \in Clusters :
        /\ SF_vars(PatrolBeginWith(c))
        /\ SF_vars(ScanList(c))
        /\ SF_vars(ScanOrphanDeleted(c))

(***************************************************************************)
(* Vocabulary of the properties                                            *)
(***************************************************************************)

\* the tenant clusters of the current pass
PassClusters == {clusterNames[i] : i \in DOMAIN clusterNames}

\* the tenant objects the goroutine of c got from its List call
Listed(c) == listed[c]

\* Delete calls issued against (c, n) in this pass
Deletes(c, n) == CopiesIn(<<c, n>>, deleteCalls)

\* keys "c/n" put on the upward queue in this pass
Queued(c, n) == CopiesIn(QueueKey(c, n), upwardQueue)

\* a PatrollerDo call over a non-empty cluster set has returned
PassReturned == pc = "idle" /\ passEnd \in {"published", "listerr"}

\* the goroutines have all been waited for
PastBarrier == pc \in {"superlist", "sweep", "publish"} \/ PassReturned

\* the goroutine of c is back from a Delete call for n (line 112) and has not
\* yet logged or counted it (lines 113, 115)
BackFromDelete(c, n) == scPc[c] \in {"deleted", "delfailed"} /\ Item(c).name = n

\* the goroutine of c listed its tenant and has run to the end of its loop
Scanned(c) == scPc[c] = "done" /\ ~listErr[c]

\* the (cluster, object) pairs this pass's goroutines compared and found different
MismatchesFound ==
    {cv \in PassClusters \X TenantObjs :
        /\ ~listErr[cv[1]]
        /\ cv[2] \in Listed(cv[1])
        /\ verdict[cv[1]][cv[2].name] \notin {"none", "lookuperr"}
        /\ \E p \in SuperGet(cv[2].name) : CheckStorageClassEquality(p, cv[2]) # NilSC}

(***************************************************************************)
(* C1                                                                      *)
(***************************************************************************)

\* C1 as stated: after a pass over an empty cluster set no goroutine ran, no
\* remedy was issued, and the published drift count is zero.
C1_EmptyPassPublishesZero ==
    (pc = "idle" /\ passEnd = "empty") =>
        /\ \A c \in Clusters : scPc[c] = "off"
        /\ deleteCalls = EmptyBag
        /\ upwardQueue = EmptyBag
        /\ missMatchGauge = 0

\* C1 amended: a pass over an empty cluster set is a single step (from idle,
\* with no cluster names to go through) that runs no
\* goroutine, issues no remedy and publishes nothing; the counter and the
\* gauge keep the values the previous pass left, the tenants are untouched.
C1_EmptyPassIsNoOp ==
    [][(pc = "idle" /\ Len(clusterNames') = 0) =>
            /\ pc' = "idle"
            /\ \A c \in Clusters : scPc'[c] = "off"
            /\ deleteCalls' = EmptyBag
            /\ upwardQueue' = EmptyBag
            /\ gaugeSets' = 0
            /\ missMatchGauge' = missMatchGauge
            /\ numMissMatchedStorageClasses' = numMissMatchedStorageClasses
            /\ vStore' = vStore]_vars

\* an empty pass has returned while the gauge still shows an earlier pass's count
C1_Witness == pc = "idle" /\ passEnd = "empty" /\ missMatchGauge > 0

(***************************************************************************)
(* C2                                                                      *)
(***************************************************************************)

\* C2 as stated: every listed tenant object without a super master object of
\* its name gets exactly one Delete call in the pass.
C2_ExactlyOneDelete ==
    \A c \in Clusters : Scanned(c) =>
        \A v \in Listed(c) : SuperGet(v.name) = {} => Deletes(c, v.name) = 1

\* C2 amended: such an object gets at most one Delete call in the pass
\* (a failed Delete is not retried); exactly one when the lookup answers
\* not found and a client is obtained, none when the lookup fails otherwise
\* or the client cannot be obtained.
C2_AtMostOneDelete ==
    /\ \A c \in Clusters, n \in Names : Deletes(c, n) <= 1
    /\ \A c \in Clusters : Scanned(c) =>
        \A v \in Listed(c) : SuperGet(v.name) = {} =>
            /\ verdict[c][v.name] \in {"deleted", "delfailed", "noclient", "lookuperr"}
            /\ Deletes(c, v.name) =
                IF verdict[c][v.name] \in {"deleted", "delfailed"} THEN 1 ELSE 0

\* a goroutine is through its list, one orphan's Delete failed, another
\* orphan's client could not be obtained
C2_Witness ==
    \E c \in Clusters :
        /\ Scanned(c)
        /\ \E v, w \in Listed(c) :
            /\ verdict[c][v.name] = "delfailed" /\ Deletes(c, v.name) = 1
            /\ verdict[c][w.name] = "noclient" /\ Deletes(c, w.name) = 0

(***************************************************************************)
(* C3                                                                      *)
(***************************************************************************)

\* C3 as stated: when the pass has returned, every public super master object
\* a tenant of the pass lacks has exactly one key on the upward queue.
C3_ExactlyOneGapKey ==
    PassReturned =>
        \A p \in pStore, c \in PassClusters :
            (publicStorageClass(p) /\ ~TenantHas(c, p.name)) => Queued(c, p.name) = 1

\* C3 amended: such a pair never has more than one key; when the pass has
\* returned it has exactly one if the super master list succeeded and the
\* probe answered not found, and none if the list failed or the probe failed
\* with another error; a pass that publishes has probed every such pair.
C3_GapKeyWhenProbed ==
    \A p \in pStore, c \in PassClusters :
        (publicStorageClass(p) /\ ~TenantHas(c, p.name)) =>
            /\ Queued(c, p.name) <= 1
            /\ PassReturned =>
                Queued(c, p.name) = IF probes[c][p.name] = "notfound" THEN 1 ELSE 0
            /\ (PassReturned /\ passEnd = "published") =>
                probes[c][p.name] \in {"notfound", "failed"}
            /\ (PassReturned /\ passEnd = "listerr") => probes[c][p.name] = "none"

\* a published pass enqueued the gap key of a tenant that holds no object at all
C3_Witness ==
    /\ PassReturned /\ passEnd = "published"
    /\ \E p \in pStore, c \in PassClusters :
        /\ publicStorageClass(p)
        /\ Listed(c) = {} /\ ~listErr[c]
        /\ Queued(c, p.name) = 1

(***************************************************************************)
(* C4                                                                      *)
(***************************************************************************)

\* C4 as stated: when the pass has returned, every same-named pair with
\* differing fields was counted once, and has one key if public, none if not.
C4_EveryMismatchCounted ==
    PassReturned =>
        \A c \in PassClusters : \A v \in vStore[c] : \A p \in SuperGet(v.name) :
            CheckStorageClassEquality(p, v) # NilSC =>
                /\ verdict[c][v.name] = "diff"
                /\ Queued(c, v.name) = IF publicStorageClass(p) THEN 1 ELSE 0

C4_State ==
    \A c \in Clusters : \A v \in Listed(c) : \A p \in SuperGet(v.name) :
        CheckStorageClassEquality(p, v) # NilSC =>
            /\ Scanned(c) => verdict[c][v.name] \in {"diff", "lookuperr"}
            /\ Queued(c, v.name) =
                IF verdict[c][v.name] = "diff" /\ publicStorageClass(p) THEN 1 ELSE 0

C4_Step ==
    \A c \in Clusters, n \in Names :
        (verdict[c][n] # "diff" /\ verdict'[c][n] = "diff") =>
            numMissMatchedStorageClasses' = numMissMatchedStorageClasses + 1

\* C4 amended: every same-named pair with differing fields that a goroutine
\* compares (its tenant's List and the lookup of the name succeed) raises the
\* counter by exactly one, and has exactly one key in the whole pass if the
\* super master object is public and none if it is not; a pair that is not
\* compared (List or lookup failed) is not counted and has no key.
C4_ComparedMismatchCounted == []C4_State /\ [][C4_Step]_vars

\* a published pass counted a public and a private mismatch
C4_Witness ==
    /\ PassReturned /\ passEnd = "published"
    /\ \E c, d \in PassClusters : \E v \in Listed(c), w \in Listed(d) :
       \E p \in SuperGet(v.name), q \in SuperGet(w.name) :
        /\ verdict[c][v.name] = "diff" /\ publicStorageClass(p) /\ Queued(c, v.name) = 1
        /\ verdict[d][w.name] = "diff" /\ ~publicStorageClass(q) /\ Queued(d, w.name) = 0
        /\ missMatchGauge = 2

(***************************************************************************)
(* C5                                                                      *)
(***************************************************************************)

C5_State ==
    \A c \in Clusters : \A v \in vStore[c] : \A p \in SuperGet(v.name) :
        CheckStorageClassEquality(p, v) = NilSC =>
            /\ verdict[c][v.name] # "diff"
            /\ Deletes(c, v.name) = 0
            /\ Queued(c, v.name) = 0

C5_Step ==
    \A c \in Clusters, n \in Names :
        (verdict[c][n] # "equal" /\ verdict'[c][n] = "equal") =>
            UNCHANGED <<numMissMatchedStorageClasses, upwardQueue, deleteCalls>>

\* C5: a same-named pair whose compared fields are identical is never
\* counted as a mismatch, and neither a Delete nor a key is issued for it in
\* the pass; the step that compares it leaves counter, queue and deletes alone.
C5_EqualPairUntouched == []C5_State /\ [][C5_Step]_vars

\* a published pass compared an equal pair of a public object
C5_Witness ==
    /\ PassReturned /\ passEnd = "published"
    /\ \E c \in PassClusters : \E v \in vStore[c] : \E p \in SuperGet(v.name) :
        /\ publicStorageClass(p)
        /\ verdict[c][v.name] = "equal"
        /\ probes[c][v.name] = "found"

(***************************************************************************)
(* C6                                                                      *)
(***************************************************************************)

\* C6: once the goroutines have been waited for, every tenant of the pass
\* whose own List succeeded has gone through all its listed objects, each of
\* them classified and its remedy issued, whatever happened to its siblings.
C6_ScanIsolation ==
    PastBarrier =>
        \A c \in PassClusters : ~listErr[c] =>
            /\ scPc[c] = "done"
            /\ \A v \in Listed(c) :
                /\ verdict[c][v.name] # "none"
                /\ verdict[c][v.name] \in {"deleted", "delfailed"} => Deletes(c, v.name) = 1
                /\ verdict[c][v.name] = "lookuperr" \/
                    IF SuperGet(v.name) = {}
                    THEN verdict[c][v.name] \in {"deleted", "delfailed", "noclient"}
                    ELSE \A p \in SuperGet(v.name) :
                        IF CheckStorageClassEquality(p, v) = NilSC
                        THEN verdict[c][v.name] = "equal"
                        ELSE /\ verdict[c][v.name] = "diff"
                             /\ publicStorageClass(p) => Queued(c, v.name) = 1

\* one tenant's List failed, its sibling deleted an orphan and requeued a
\* mismatch, and the barrier has been passed
C6_Witness ==
    /\ pc = "superlist"
    /\ \E c, d \in PassClusters :
        /\ listErr[c]
        /\ ~listErr[d]
        /\ \E v, w \in Listed(d) :
            /\ verdict[d][v.name] = "deleted"
            /\ verdict[d][w.name] = "diff" /\ Queued(d, w.name) = 1

(***************************************************************************)
(* C7                                                                      *)
(***************************************************************************)

\* C7 as stated: every pass over a non-empty cluster set goes through the
\* sweep and sets the gauge exactly once, whatever calls failed.
C7_AlwaysPublishesOnce ==
    /\ gaugeSets <= 1
    /\ (pc = "idle" /\ passEnd \notin {"none", "empty"}) =>
        passEnd = "published" /\ gaugeSets = 1

(***************************************************************************)
(* C8                                                                      *)
(***************************************************************************)

\* C8 as stated: a tenant whose List failed gets no Delete and no key in
\* that pass.
C8_NoRemedyAfterListError ==
    \A c \in Clusters : listErr[c] =>
        \A n \in Names : Deletes(c, n) = 0 /\ Queued(c, n) = 0

\* C8 amended: a tenant whose List failed is skipped by its goroutine: no
\* object of it is classified, deleted, counted or requeued by the scan.
\* The sweep still probes that tenant, and the keys on the queue for it are
\* exactly the public objects its probe answered not found, one each.
C8_ScanSkippedAfterListError ==
    \A c \in Clusters : listErr[c] =>
        /\ scList[c] = <<>> /\ Listed(c) = {}
        /\ \A n \in Names :
            /\ verdict[c][n] = "none"
            /\ Deletes(c, n) = 0
            /\ Queued(c, n) = IF probes[c][n] = "notfound" THEN 1 ELSE 0

\* a tenant whose List failed holds objects of its own, and the sweep of a
\* published pass has requeued a public object that tenant lacks
C8_Witness ==
    /\ PassReturned /\ passEnd = "published"
    /\ \E c \in PassClusters :
        /\ listErr[c]
        /\ vStore[c] # {}
        /\ \E n \in Names : probes[c][n] = "notfound" /\ Queued(c, n) = 1

(***************************************************************************)
(* C9                                                                      *)
(***************************************************************************)

\* C9: whenever PatrollerDo lists the super master, sweeps, reads the counter
\* for the gauge or has returned from doing so, every goroutine launched in
\* the pass has returned: one was launched per cluster name, the wait group
\* is back at zero, and no goroutine exists outside the pass's clusters.
C9_ReadAfterBarrier ==
    PastBarrier =>
        /\ launched = Len(clusterNames)
        /\ wg = 0
        /\ \A c \in PassClusters : scPc[c] = "done"
        /\ \A c \in Clusters \ PassClusters : scPc[c] = "off"

\* the counter is about to be read after two goroutines counted mismatches
C9_Witness ==
    /\ pc = "publish"
    /\ Len(clusterNames) = 2
    /\ \A c \in PassClusters : \E n \in Names : verdict[c][n] = "diff"

(***************************************************************************)
(* C10                                                                     *)
(***************************************************************************)

\* C10: the counter always equals the number of pairs counted so far in the
\* pass, and the gauge a pass publishes equals the number of mismatched
\* (cluster, object) pairs its goroutines found, whatever their interleaving.
C10_NoLostUpdate ==
    /\ pc # "idle" =>
        numMissMatchedStorageClasses =
            Cardinality({cn \in Clusters \X Names : verdict[cn[1]][cn[2]] = "diff"})
    /\ (pc = "idle" /\ passEnd = "published") =>
        missMatchGauge = Cardinality(MismatchesFound)

\* a pass published 3 mismatches found by two goroutines
C10_Witness ==
    /\ pc = "idle" /\ passEnd = "published"
    /\ missMatchGauge = 3
    /\ \A c \in Clusters : \E n \in Names : verdict[c][n] = "diff"

(***************************************************************************)
(* C11                                                                     *)
(***************************************************************************)

\* C11: under LiveSpec's fairness, every tenant object without a super master
\* object of its name is eventually deleted from its tenant cluster.
C11_OrphanEventuallyDeleted ==
    \A c \in Clusters : \A n \in Names :
        (TenantHas(c, n) /\ SuperGet(n) = {}) ~> ~TenantHas(c, n)

\* a later pass: T1's orphan B went in an earlier pass (T1's List no longer
\* returns it), and this pass deleted the orphan B of T2
C11_Witness ==
    /\ passEnd = "published"
    /\ Scanned("T1") /\ \A v \in Listed("T1") : v.name # "B"
    /\ verdict["T2"]["B"] = "deleted"
    /\ ~TenantHas("T2", "B")

(***************************************************************************)
(* C12                                                                     *)
(***************************************************************************)

\* C12: when a pass over T1 alone has listed A (matching), B (differing) and
\* C (no counterpart) and no call failed, exactly one Delete was issued, for
\* (T1, C); the upward queue got no key; and the gauge was set once, to 1.
C12_ScenarioT1 ==
    (PassReturned /\ clusterNames = <<"T1">> /\ faults = 0 /\ Listed("T1") = ScenarioT1) =>
        /\ deleteCalls = SetToBag({<<"T1", "C">>})
        /\ ~TenantHas("T1", "C")
        /\ upwardQueue = EmptyBag
        /\ passEnd = "published"
        /\ gaugeSets = 1
        /\ missMatchGauge = 1

\* that pass has returned: A compared equal and was found by the sweep, B was
\* counted, C was deleted
C12_Witness ==
    /\ PassReturned /\ clusterNames = <<"T1">> /\ faults = 0
    /\ Listed("T1") = ScenarioT1
    /\ verdict["T1"]["A"] = "equal" /\ probes["T1"]["A"] = "found"
    /\ verdict["T1"]["B"] = "diff"
    /\ verdict["T1"]["C"] = "deleted"

(***************************************************************************)
(* C13                                                                     *)
(***************************************************************************)

\* the sweep has been through the probe of pList[i] in clusterNames[j]
SweptPast(i, j) == pc # "sweep" \/ i < si \/ (i = si /\ j < sj)

\* C13: a probe of the sweep that answers not found puts the key of its
\* (cluster, name) on the queue; a probe that fails otherwise puts nothing
\* there (the pair has only the key of its counted mismatch, if any); and
\* either way the sweep goes on: every pair before its position has been
\* probed, and a pass that publishes has probed every public object in
\* every cluster of the pass.
C13_ProbeOutcomes ==
    /\ \A c \in Clusters, n \in Names :
        /\ probes[c][n] = "notfound" => Queued(c, n) = 1
        /\ probes[c][n] = "failed" =>
            Queued(c, n) = IF verdict[c][n] = "diff" THEN 1 ELSE 0
    /\ (pc \in {"sweep", "publish"} \/ (PassReturned /\ passEnd = "published")) =>
        \A i \in DOMAIN pList, j \in DOMAIN clusterNames :
            (publicStorageClass(pList[i]) /\ SweptPast(i, j)) =>
                probes[clusterNames[j]][pList[i].name] # "none"

\* a published pass had a probe fail and still requeued two gaps
C13_Witness ==
    /\ PassReturned /\ passEnd = "published"
    /\ \E c \in Clusters, n \in Names : probes[c][n] = "failed" /\ Queued(c, n) = 0
    /\ \E c, d \in Clusters, n, m \in Names :
        /\ <<c, n>> # <<d, m>>
        /\ probes[c][n] = "notfound" /\ Queued(c, n) = 1
        /\ probes[d][m] = "notfound" /\ Queued(d, m) = 1

(***************************************************************************)
(* C14                                                                     *)
(***************************************************************************)

C14_State ==
    \A c \in Clusters, n \in Names :
        verdict[c][n] = "lookuperr" =>
            /\ Deletes(c, n) = 0
            /\ Queued(c, n) = 0
            /\ TenantHas(c, n)

C14_Step ==
    \A c \in Clusters, n \in Names :
        (verdict[c][n] # "lookuperr" /\ verdict'[c][n] = "lookuperr") =>
            /\ UNCHANGED <<numMissMatchedStorageClasses, upwardQueue, deleteCalls,
                           remedyStats, vStore, wg, pc>>
            /\ scPc'[c] = "loop"
            /\ scIdx'[c] = scIdx[c] + 1

\* C14: when the lookup of a listed object fails with another error than not
\* found, the step issues no Delete, counts nothing, requeues nothing and
\* moves the goroutine to the next listed object; the object is never
\* deleted, counted as compared or requeued in that pass.
C14_LookupErrorSkipsObject == []C14_State /\ [][C14_Step]_vars

\* a goroutine went on after a failed lookup and deleted or counted the next
\* object; it is at the end of its loop
C14_Witness ==
    \E c \in Clusters :
        /\ scPc[c] = "loop" /\ scIdx[c] = 3
        /\ Len(scList[c]) = 2
        /\ verdict[c][scList[c][1].name] = "lookuperr"
        /\ verdict[c][scList[c][2].name] \in {"deleted", "diff"}

(***************************************************************************)
(* C15                                                                     *)
(***************************************************************************)

C15_State ==
    \A c \in Clusters, n \in Names :
        /\ verdict[c][n] \in {"noclient", "delfailed"} =>
            /\ TenantHas(c, n)
            /\ Queued(c, n) = 0
            /\ Deletes(c, n) = IF verdict[c][n] = "delfailed" THEN 1 ELSE 0
        /\ (scPc[c] = "delfailed" /\ Item(c).name = n) =>
            /\ TenantHas(c, n)
            /\ Queued(c, n) = 0
            /\ Deletes(c, n) = 1

C15_Step ==
    /\ \A c \in Clusters, n \in Names :
        (/\ verdict[c][n] \notin {"noclient", "delfailed"}
         /\ verdict'[c][n] \in {"noclient", "delfailed"}) =>
            /\ UNCHANGED <<numMissMatchedStorageClasses, upwardQueue, remedyStats,
                           vStore, wg, pc, passEnd>>
            /\ scPc'[c] = "loop"
            /\ scIdx'[c] = scIdx[c] + 1
    /\ \A c \in Clusters :
        \* the Delete call returns an error
        (scPc[c] # "delfailed" /\ scPc'[c] = "delfailed") =>
            UNCHANGED <<numMissMatchedStorageClasses, upwardQueue, remedyStats,
                        vStore, wg, pc, passEnd>>

\* C15: when client acquisition or the Delete fails for an orphan, the
\* failing call and the step that logs it leave the counter, the queue and
\* the driver alone, and the goroutine moves to the next listed object of the
\* same tenant; the orphan stays in the tenant.
C15_RemedyFailureIsLocal == []C15_State /\ [][C15_Step]_vars

\* a goroutine could not get a client for its first object and went on: its
\* second object's Delete failed or succeeded, or it was counted; the
\* goroutine is at the end of its loop
C15_Witness ==
    \E c \in Clusters :
        /\ scPc[c] = "loop" /\ scIdx[c] = 3
        /\ Len(scList[c]) = 2
        /\ verdict[c][scList[c][1].name] = "noclient"
        /\ verdict[c][scList[c][2].name] \in {"delfailed", "deleted", "diff"}

(***************************************************************************)
(* C16                                                                     *)
(***************************************************************************)

\* C16 as stated: whenever a pass has started, whether it is about to launch
\* its goroutines or has returned at once for want of tenant clusters, the
\* counter has been reset to zero.
C16_ResetAtEveryPassStart ==
    /\ (pc = "launch" /\ launched = 0) => numMissMatchedStorageClasses = 0
    /\ (pc = "idle" /\ passEnd = "empty") => numMissMatchedStorageClasses = 0

C16_Step ==
    \* a pass over a non-empty cluster set starts: the counter is zero before
    \* any goroutine exists
    /\ (pc = "idle" /\ pc' = "launch") =>
        /\ numMissMatchedStorageClasses' = 0
        /\ \A c \in Clusters : scPc'[c] = "off"
    \* a pass over an empty cluster set returns before the reset
    /\ (pc = "idle" /\ Len(clusterNames') = 0) =>
        numMissMatchedStorageClasses' = numMissMatchedStorageClasses
    \* within a pass the counter never goes down
    /\ pc # "idle" => numMissMatchedStorageClasses' >= numMissMatchedStorageClasses
    \* the value a pass publishes is the number of mismatches that pass found
    /\ gaugeSets' = gaugeSets + 1 => missMatchGauge' = Cardinality(MismatchesFound)

\* C16 amended: the counter is reset to zero when a pass over a non-empty
\* cluster set starts, before any goroutine is launched; it only grows until
\* the pass returns; and the value a pass publishes is the number of
\* mismatches found in that pass, whatever earlier passes counted. A pass
\* over an empty cluster set returns before the reset and leaves the counter
\* at the value of the pass before it.
C16_CountScopedToPass ==
    [](pc = "launch" /\ launched = 0 => numMissMatchedStorageClasses = 0)
        /\ [][C16_Step]_vars

\* a pass has just been started and reset the counter, while the gauge still
\* shows the mismatches an earlier pass counted
C16_Witness ==
    /\ pc = "launch" /\ launched = 0
    /\ missMatchGauge > 0
    /\ numMissMatchedStorageClasses = 0

(***************************************************************************)
(* C17                                                                     *)
(***************************************************************************)

C17_Accounting ==
    \* one goroutine per cluster name launched so far, no other
    /\ {c \in Clusters : scPc[c] # "off"} = {clusterNames[i] : i \in 1..launched}
    /\ launched = Cardinality({c \in Clusters : scPc[c] # "off"})
    /\ launched <= Len(clusterNames)
    /\ pc \in {"wait", "superlist", "sweep", "publish"} => launched = Len(clusterNames)
    \* the wait group counts the goroutines that have not signalled yet
    /\ wg = Cardinality({c \in Clusters : scPc[c] \notin {"off", "done"}})

\* C17: under LiveSpec's fairness every PatrollerDo call returns; exactly one
\* goroutine is launched per cluster name, and each signals the wait group
\* exactly once, on whichever path it returns, so the wait group counts the
\* goroutines still running and the wait at the barrier ends.
C17_PassTerminates == []C17_Accounting /\ (pc # "idle" ~> pc = "idle")

\* a pass returned although one goroutine's List failed and the other met a
\* failed lookup, a missing client or a failed Delete
C17_Witness ==
    /\ pc = "idle" /\ passEnd = "published"
    /\ Len(clusterNames) = 2
    /\ \E c, d \in PassClusters :
        /\ listErr[c]
        /\ \E n \in Names : verdict[d][n] \in {"lookuperr", "noclient", "delfailed"}

(***************************************************************************)
(* C18                                                                     *)
(***************************************************************************)

C18_State ==
    \A c \in Clusters, n \in Names :
        /\ Deletes(c, n) > 0 =>
            /\ \E v \in Listed(c) : v.name = n
            /\ SuperGet(n) = {}
            /\ verdict[c][n] \in {"deleted", "delfailed"} \/ BackFromDelete(c, n)
        /\ (SuperGet(n) # {} \/ verdict[c][n] = "lookuperr") => Deletes(c, n) = 0

C18_Step ==
    /\ pStore' = pStore
    /\ \A c \in Clusters : \A v \in vStore[c] :
        \/ v \in vStore'[c]
        \/ SuperGet(v.name) = {} /\ verdict[c][v.name] # "lookuperr"

\* C18: every Delete of a pass is against a (cluster, name) that the
\* cluster's List returned and whose lookup answered not found; an object
\* with a super master counterpart, or whose lookup failed otherwise, gets no
\* Delete and stays in its tenant; the super master's store never changes.
C18_DeleteOnlyOrphans == []C18_State /\ [][C18_Step]_vars

\* a goroutine deleted an orphan and left the differing object next to it alone
C18_Witness ==
    \E c \in Clusters, n, m \in Names :
        /\ Scanned(c)
        /\ verdict[c][n] = "deleted" /\ Deletes(c, n) = 1 /\ ~TenantHas(c, n)
        /\ verdict[c][m] = "diff" /\ Deletes(c, m) = 0 /\ TenantHas(c, m)

(***************************************************************************)
(* C19                                                                     *)
(***************************************************************************)

\* C19: every key on the upward queue is "cluster/name" for a cluster of the
\* pass's cluster set and a super master object that is public, whether the
\* scan or the sweep put it there.
C19_OnlyPublicKeys ==
    \A key \in BagToSet(upwardQueue) :
        \E c \in PassClusters, p \in pStore :
            publicStorageClass(p) /\ key = QueueKey(c, p.name)

\* the scan requeued a public mismatch, the sweep a public gap, and a private
\* mismatch was counted without a key
C19_Witness ==
    /\ PassReturned /\ passEnd = "published"
    /\ \E c, d, e \in Clusters, n, m \in Names :
        /\ verdict[c][n] = "diff" /\ Queued(c, n) = 1
        /\ probes[d][n] = "notfound" /\ Queued(d, n) = 1
        /\ verdict[e][m] = "diff" /\ Queued(e, m) = 0
        /\ \E p \in SuperGet(m) : ~publicStorageClass(p)

(***************************************************************************)
(* C20                                                                     *)
(***************************************************************************)

PairsWith(f, kinds) == {cn \in Clusters \X Names : f[cn[1]][cn[2]] \in kinds}

\* C20: in every pass the DeletedOrphanTenantStorageClasses counter has gone
\* up once per Delete that succeeded and whose goroutine has moved on (not
\* for a failed Delete or a missing client), so once the goroutines have been
\* waited for it is the number of objects the pass deleted; the
\* RequeuedSuperMasterStorageClasses counter has gone up once per key the
\* sweep enqueued; the keys of counted mismatches are on the queue without
\* being counted.
C20_RemedyCounters ==
    /\ remedyStats[DeletedLabel] = Cardinality(PairsWith(verdict, {"deleted"}))
    /\ remedyStats[DeletedLabel] =
        BagCardinality(deleteCalls)
            - Cardinality(PairsWith(verdict, {"delfailed"}))
            - Cardinality({c \in Clusters : scPc[c] \in {"deleted", "delfailed"}})
    /\ PastBarrier =>
        /\ \A c \in Clusters : scPc[c] \notin {"deleted", "delfailed"}
        /\ remedyStats[DeletedLabel] =
            Cardinality({cn \in Clusters \X Names :
                            Deletes(cn[1], cn[2]) = 1 /\ ~TenantHas(cn[1], cn[2])})
    /\ remedyStats[RequeuedLabel] = Cardinality(PairsWith(probes, {"notfound"}))
    /\ BagCardinality(upwardQueue) = remedyStats[RequeuedLabel] +
        Cardinality({cn \in PairsWith(verdict, {"diff"}) :
                        \E p \in SuperGet(cn[2]) : publicStorageClass(p)})

\* a published pass with a counted Delete, a failed one, one gap key and one
\* mismatch key
C20_Witness ==
    /\ PassReturned /\ passEnd = "published"
    /\ remedyStats[DeletedLabel] = 1
    /\ PairsWith(verdict, {"delfailed"}) # {}
    /\ remedyStats[RequeuedLabel] = 1
    /\ BagCardinality(upwardQueue) = 2

====
